---- MODULE Spec2Model ----
(***************************************************************************)
(* Model of the privateclaw flagging pipeline                              *)
(* (src/.privateclaw/.scripts/privateclaw/flag.py, config.py).             *)
(*                                                                         *)
(* Five specifications share the module's variables:                       *)
(*   SpecChunk  chunk_lines, run one loop iteration per step               *)
(*   SpecAnnot  insert_flags_by_lines applied to a document and the flags  *)
(*              collected for it                                           *)
(*   SpecFlag   flag_file: the windows of one document submitted to the    *)
(*              classifier one by one, then insert_flags_by_lines          *)
(*   SpecParse  parse_llm_response applied to a response text              *)
(*   Spec       main(): the driver under FileLock("flag"), several         *)
(*              invocations, process termination at any step               *)
(* Python indices are kept 0-based as in the source; TLA+ sequences are    *)
(* 1-based, so element i of a Python list is seq[i + 1].                   *)
(***************************************************************************)
EXTENDS Integers, Sequences, FiniteSets, TLC

VARIABLES
    \* chunk_lines (flag.py:72-86)
    lines,          \* the document's lines (argument of chunk_lines)
    chunk_size,     \* argument chunk_size
    overlap,        \* argument overlap
    start,          \* local start
    chunks,         \* local chunks: sequence of (start, lines[start:end])
    cpc,            \* position in chunk_lines: "call", "loop", "done", "off"
    \* flag_file / insert_flags_by_lines (flag.py:209-263, 277-310)
    all_flags,      \* flag_file's all_flags: the candidates of all windows
    summary,        \* insert_flags_by_lines: summary (the header's lines)
    ranges,         \* ranges as built by the validation loop (before sort)
    merged,         \* merged
    flagged_text,   \* the returned text, as its sequence of lines
    apc,            \* position: "collect", "done", "off"
    \* main() under FileLock("flag") (flag.py:321-366, config.py:105-137)
    src,            \* the documents now in the root / transcriptions folders
    unreadable,     \* the documents read_text cannot decode
    review,         \* the files of the review directory
    archive,        \* the files of the archive directory
    flock_holder,   \* the invocation holding flock on flag.lock, or "none"
    pc,             \* each invocation's position in main()
    acquired,       \* each invocation's result of FileLock.acquire()
    files,          \* each invocation's files (discover_text_files)
    fidx,           \* each invocation's position in "for file_path in files"
    out_path,       \* each invocation's out_path
    exit_code,      \* each invocation's exit status, once it has ended
    \* flag_file's window loop (flag.py:277-308)
    win,            \* position in "for i, (start_offset, chunk) in
                    \* enumerate(chunks)": chunks[win] is next (i = win - 1)
    prompts,        \* the numbered windows given to ollama.chat so far
    replies,        \* what each call gave: raised, or the parsed flags
    \* parse_llm_response (flag.py:131-159)
    response_text,  \* argument response_text
    ptext,          \* local text, after strip() and the fence removal
    parsed,         \* the returned value
    ppc,            \* position: "call", "direct", "search", "returned",
                    \* "raised", "off"
    \* transcribe.py main() under FileLock("transcribe") (transcribe.py:182-224)
    media,          \* the media files now in the root folder
    tflock_holder,  \* the invocation holding flock on transcribe.lock
    tpc,            \* the transcriber's position in main()
    tfiles,         \* the transcriber's files, flattened in loop order
    tidx,           \* the transcriber's position in its loop over files
    tout_path,      \* the transcriber's out_path
    writing,        \* the transcriptions write_text has opened, not closed
    read_partial,   \* each flagger invocation: read_text at flag.py:268 read
                    \* a file that was in `writing`
    doc_text        \* the lines now in each file of the root and the
                    \* transcriptions folders

chunkVars == <<lines, chunk_size, overlap, start, chunks, cpc>>
annotVars == <<all_flags, summary, ranges, merged, flagged_text, apc>>

trVars == <<media, tflock_holder, tpc, tfiles, tidx, tout_path, writing, read_partial,
            doc_text>>
drvVars == <<trVars, src, unreadable, review, archive, flock_holder, pc, acquired, files,
             fidx, out_path, exit_code>>

flagVars == <<win, prompts, replies>>
parseVars == <<response_text, ptext, parsed, ppc>>

vars == <<chunkVars, annotVars, drvVars, flagVars, parseVars>>

\* ------------------------------------------------------------------ bounds
MaxDocLen == 3      \* longest document the single invocation screens
MaxLen == 4         \* longest document given to chunk_lines
MaxChunk == 3       \* largest chunk_size / overlap drawn from configuration
MaxLines == 4       \* longest document given to insert_flags_by_lines
MaxFlags == 2       \* most candidates collected for one document
MaxDepth == 2       \* deepest nesting of a JSON value in a response text

\* A loop that makes progress emits at most one window per line; the model
\* stops a runaway loop two windows later.
ChunkCap == MaxLen + 2

\* ------------------------------------------------------------ Python helpers
Min(a, b) == IF a <= b THEN a ELSE b
Max(a, b) == IF a >= b THEN a ELSE b

\* Python's slice index normalisation for seq[a:b] on a list of length n.
SliceIndex(i, n) == IF i < 0 THEN Max(i + n, 0) ELSE Min(i, n)

\* seq[a:b] with Python semantics (0-based, end exclusive, negative indices
\* counted from the end).
PySlice(seq, a, b) ==
    LET lo == SliceIndex(a, Len(seq))
        hi == SliceIndex(b, Len(seq))
    IN  IF lo < hi THEN SubSeq(seq, lo + 1, hi) ELSE << >>

\* ------------------------------------------------------------- chunk_lines
ChunkEndShort(s) == Min(s + chunk_size - 1, Len(lines))
\* end = min(start + chunk_size, len(lines))
ChunkEnd(s) == Min(s + chunk_size, Len(lines))

NextStartGap(end) == end - overlap + 1
\* start = end - overlap
NextStart(end) == end - overlap

\* if len(lines) <= chunk_size: return [(0, lines)]
ChunkSingle ==
    /\ cpc = "call"
    /\ Len(lines) <= chunk_size
    /\ chunks' = << [start |-> 0, chunk |-> lines] >>
    /\ cpc' = "done"
    /\ UNCHANGED <<lines, chunk_size, overlap, start>>
    /\ UNCHANGED <<annotVars, drvVars, flagVars, parseVars>>

\* chunks = []; start = 0
ChunkEnter ==
    /\ cpc = "call"
    /\ Len(lines) > chunk_size
    /\ chunks' = << >>
    /\ start' = 0
    /\ cpc' = "loop"
    /\ UNCHANGED <<lines, chunk_size, overlap>>
    /\ UNCHANGED <<annotVars, drvVars, flagVars, parseVars>>

\* One iteration of the while loop whose body ends in "break".
ChunkLast ==
    /\ cpc = "loop"
    /\ start < Len(lines)
    /\ Len(chunks) < ChunkCap
    /\ ChunkEnd(start) >= Len(lines)
    /\ chunks' = Append(chunks, [start |-> start,
                                 chunk |-> PySlice(lines, start, ChunkEnd(start))])
    /\ cpc' = "done"
    /\ UNCHANGED <<lines, chunk_size, overlap, start>>
    /\ UNCHANGED <<annotVars, drvVars, flagVars, parseVars>>

\* One iteration of the while loop that goes round again.
ChunkAdvance ==
    /\ cpc = "loop"
    /\ start < Len(lines)
    /\ Len(chunks) < ChunkCap
    /\ ChunkEnd(start) < Len(lines)
    /\ chunks' = Append(chunks, [start |-> start,
                                 chunk |-> PySlice(lines, start, ChunkEnd(start))])
    /\ start' = NextStart(ChunkEnd(start))
    /\ UNCHANGED <<lines, chunk_size, overlap, cpc>>
    /\ UNCHANGED <<annotVars, drvVars, flagVars, parseVars>>

\* The while condition is false: fall out of the loop.
ChunkExhausted ==
    /\ cpc = "loop"
    /\ start >= Len(lines)
    /\ cpc' = "done"
    /\ UNCHANGED <<lines, chunk_size, overlap, start, chunks>>
    /\ UNCHANGED <<annotVars, drvVars, flagVars, parseVars>>

\* Texts are sequences of tokens, so that building a text is concatenation.
\* A document of n lines; line i carries its own text, so a window's or an
\* output's content identifies the lines it holds, except that line 2 reads
\* exactly like a START marker (the document is free text).
START_MARKER == << "----PRIVATE (START)----" >>
END_MARKER == << "----PRIVATE (END)----" >>
LineText(i) == IF i = 2 THEN START_MARKER ELSE << "line", ToString(i) >>
DocOfLen(n) == [i \in 1..n |-> LineText(i)]

\* The invocations of "privateclaw flag" (cron starts one every minute; the
\* menu starts one by hand).
Procs == {"p1", "p2"}

\* The state of the driver while it is not under study.
TrOff ==
    /\ media = {}
    /\ tflock_holder = "none"
    /\ tpc = "off"
    /\ tfiles = << >>
    /\ tidx = 0
    /\ tout_path = << >>
    /\ writing = {}
    /\ read_partial = [p \in Procs |-> FALSE]
    /\ doc_text = << >>

\* The state of main() while it is not under study.
DriverOff ==
    /\ TrOff
    /\ src = {}
    /\ unreadable = {}
    /\ review = {}
    /\ archive = {}
    /\ flock_holder = "none"
    /\ pc = [p \in Procs |-> "off"]
    /\ acquired = [p \in Procs |-> FALSE]
    /\ files = [p \in Procs |-> << >>]
    /\ fidx = [p \in Procs |-> 0]
    /\ out_path = [p \in Procs |-> << >>]
    /\ exit_code = [p \in Procs |-> "none"]

\* The state of insert_flags_by_lines while it is not under study.
AnnotOff ==
    /\ all_flags = << >>
    /\ summary = << >>
    /\ ranges = << >>
    /\ merged = << >>
    /\ flagged_text = << >>
    /\ apc = "off"

\* The state of flag_file's window loop while it is not under study.
FlagOff ==
    /\ win = 0
    /\ prompts = << >>
    /\ replies = << >>

\* JSON values: a type and, for a list, its elements; for an object, the
\* values under its keys.
JValue(type, items) == [type |-> type, items |-> items]
JNum == JValue("num", << >>)
JStr == JValue("str", << >>)
JList(items) == JValue("list", items)
JDict(items) == JValue("dict", items)
NoValue == JValue("none", << >>)

\* The state of parse_llm_response while it is not under study.
ParseOff ==
    /\ response_text = << >>
    /\ ptext = << >>
    /\ parsed = NoValue
    /\ ppc = "off"

InitChunk ==
    /\ lines \in {DocOfLen(n) : n \in 0..MaxLen}
    /\ chunk_size \in 1..MaxChunk
    /\ overlap \in (-1)..MaxChunk
    /\ start = 0
    /\ chunks = << >>
    /\ cpc = "call"
    /\ AnnotOff
    /\ DriverOff
    /\ FlagOff
    /\ ParseOff

NextChunk ==
    \/ ChunkSingle
    \/ ChunkEnter
    \/ ChunkLast
    \/ ChunkAdvance
    \/ ChunkExhausted

SpecChunk == InitChunk /\ [][NextChunk]_vars

\* ------------------------------------------------------------ chunk claims
ValidChunking == chunk_size >= 1 /\ 0 <= overlap /\ overlap < chunk_size

\* Line indices [start, start + len(chunk)) of window k.
WindowRange(k) == chunks[k].start .. (chunks[k].start + Len(chunks[k].chunk) - 1)

\* C1: with chunk_size >= 1 and 0 <= overlap < chunk_size the windows
\* returned by chunk_lines cover every index of [0, len(lines)) with no gap
\* between consecutive windows, each window holds the lines of its range, and
\* the last window ends exactly at len(lines).
C1_ChunksCover ==
    (cpc = "done" /\ ValidChunking) =>
        /\ Len(chunks) >= 1
        /\ chunks[1].start = 0
        /\ \A k \in 1..(Len(chunks) - 1) :
              /\ chunks[k + 1].start <= chunks[k].start + Len(chunks[k].chunk)
              /\ chunks[k + 1].start >= 0
        /\ chunks[Len(chunks)].start + Len(chunks[Len(chunks)].chunk) = Len(lines)
        /\ UNION {WindowRange(k) : k \in 1..Len(chunks)} = 0..(Len(lines) - 1)
        /\ \A k \in 1..Len(chunks) :
              chunks[k].chunk =
                  SubSeq(lines, chunks[k].start + 1,
                         chunks[k].start + Len(chunks[k].chunk))

C1_Witness ==
    /\ cpc = "done"
    /\ ValidChunking
    /\ overlap >= 1
    /\ Len(chunks) >= 3

\* C2: chunk_lines called with overlap >= chunk_size on a document longer
\* than chunk_size does not keep looping: it stops (with an error) before it
\* has emitted more windows than the document has lines.
C2_InvalidOverlapTerminates ==
    (overlap >= chunk_size /\ Len(lines) > chunk_size) =>
        Len(chunks) <= Len(lines)

\* ------------------------------------------------------ Python list and dict
\* entry.get(key, default)
Get(entry, key, default) == IF key \in DOMAIN entry THEN entry[key] ELSE default

PyInsertOverwrite(seq, i, x) ==
    IF i >= Len(seq) THEN Append(seq, x) ELSE [seq EXCEPT ![i + 1] = x]
\* list.insert(i, x) for 0 <= i; an index beyond the end appends.
PyInsert(seq, i, x) ==
    LET at == Min(i, Len(seq))
    IN  SubSeq(seq, 1, at) \o << x >> \o SubSeq(seq, at + 1, Len(seq))

\* reversed(seq)
Reversed(seq) == [i \in 1..Len(seq) |-> seq[Len(seq) + 1 - i]]

\* Code-point order of the tokens reasons are made of.
TokenRank(t) ==
    CASE t = " " -> 0
      [] t = ";" -> 1
      [] t = "a" -> 2
      [] t = "b" -> 3
      [] OTHER -> 4

\* Python's str <: lexicographic, a proper prefix first.
RECURSIVE TextLess(_, _)
TextLess(a, b) ==
    IF b = << >> THEN FALSE
    ELSE IF a = << >> THEN TRUE
    ELSE IF TokenRank(Head(a)) # TokenRank(Head(b))
         THEN TokenRank(Head(a)) < TokenRank(Head(b))
    ELSE TextLess(Tail(a), Tail(b))

\* "sub in text" on strings.
IsSubstring(sub, text) ==
    \E k \in 0..(Len(text) - Len(sub)) : SubSeq(text, k + 1, k + Len(sub)) = sub

\* str.strip()
RECURSIVE LStrip(_)
LStrip(t) == IF t # << >> /\ Head(t) = " " THEN LStrip(Tail(t)) ELSE t
Strip(t) == Reversed(LStrip(Reversed(LStrip(t))))

\* ----------------------------------------------------- build_summary_header
\* reasons: the distinct stripped non-empty reasons in first-seen order
RECURSIVE UniqueReasons(_, _)
UniqueReasons(flagged_ranges, reasons) ==
    IF flagged_ranges = << >> THEN reasons
    ELSE LET reason == Strip(Get(Head(flagged_ranges), "reason", << >>))
         IN  UniqueReasons(Tail(flagged_ranges),
                 IF reason # << >> /\ \A k \in 1..Len(reasons) : reasons[k] # reason
                 THEN Append(reasons, reason)
                 ELSE reasons)

\* The header texts, line by line (the status glyphs are left out).
NoFlagsHeader ==
    << << "---" >>,
       << "## Privacy Screening Summary" >>,
       << >>,
       << "**Status:** ", "No sensitive content detected" >>,
       << >>,
       << "This file has been automatically screened for privacy-sensitive content." >>,
       << "No items were flagged for review." >>,
       << >>,
       << "---" >>,
       << >> >>

\* The header were the count line written for every count, zero included.
HeaderAlwaysCounted(flagged_ranges) ==
    << << "---" >>,
       << "## Privacy Screening Summary" >>,
       << >>,
       << "**Status:** ", ToString(Len(flagged_ranges)), " ", "items",
          " flagged for review" >>,
       << >>,
       << "---" >>,
       << >> >>

build_summary_header(flagged_ranges) ==
    LET count == Len(flagged_ranges)
        reasons == UniqueReasons(flagged_ranges, << >>)
        items_word == IF count = 1 THEN "item" ELSE "items"
    IN  IF count = 0 THEN NoFlagsHeader
        ELSE << << "---" >>,
                << "## Privacy Screening Summary" >>,
                << >>,
                << "**Status:** ", ToString(count), " ", items_word,
                   " flagged for review" >>,
                << >> >>
             \o (IF reasons # << >>
                 THEN << << "**Flagged content:**" >> >>
                      \o [i \in 1..Len(reasons) |->
                             << ToString(i), ". " >> \o reasons[i]]
                      \o << << >> >>
                 ELSE << >>)
             \o << << "Look for ", "----PRIVATE (START)----", " markers below to find flagged sections." >>,
                   << "Review and redact sensitive content before moving to OPENCLAW folder." >>,
                   << >>,
                   << "---" >>,
                   << >> >>

\* ---------------------------------------------------- insert_flags_by_lines
\* if start is None or end is None: continue
HasLineNumbers(entry) ==
    /\ "start_line" \in DOMAIN entry
    /\ "end_line" \in DOMAIN entry

ClampHighLen(idx, n) == Min(idx, n)
\* min(idx, len(lines) - 1)
ClampHigh(idx, n) == Min(idx, n - 1)

\* start_idx = max(0, min(int(start) - 1, len(lines) - 1))
ResolveStart(entry, n) == Max(0, ClampHigh(entry.start_line - 1, n))

\* end_idx = max(start_idx, min(int(end) - 1, len(lines) - 1))
ResolveEnd(entry, n) == Max(ResolveStart(entry, n), ClampHigh(entry.end_line - 1, n))

\* The validation loop were it to end at the first entry without both line
\* numbers.
RECURSIVE CollectRangesBreak(_, _)
CollectRangesBreak(flagged_ranges, n) ==
    IF flagged_ranges = << >> THEN << >>
    ELSE LET entry == Head(flagged_ranges)
         IN  IF HasLineNumbers(entry)
             THEN << << ResolveStart(entry, n), ResolveEnd(entry, n),
                        Get(entry, "reason", << >>) >> >>
                  \o CollectRangesBreak(Tail(flagged_ranges), n)
             ELSE << >>

\* The validation loop: one (start_idx, end_idx, reason) per entry that has
\* both line numbers, in the entries' order.
RECURSIVE CollectRanges(_, _)
CollectRanges(flagged_ranges, n) ==
    IF flagged_ranges = << >> THEN << >>
    ELSE LET entry == Head(flagged_ranges)
             rest == CollectRanges(Tail(flagged_ranges), n)
         IN  IF HasLineNumbers(entry)
             THEN << << ResolveStart(entry, n), ResolveEnd(entry, n),
                        Get(entry, "reason", << >>) >> >> \o rest
             ELSE rest

\* Python's tuple <= on (start, end, reason).
RangeLessEq(a, b) ==
    IF a[1] # b[1] THEN a[1] < b[1]
    ELSE IF a[2] # b[2] THEN a[2] < b[2]
    ELSE a[3] = b[3] \/ TextLess(a[3], b[3])

\* ranges.sort(): insertion into the sorted prefix, equal elements kept in
\* their order.
RECURSIVE SortedInsert(_, _)
SortedInsert(sorted, r) ==
    IF sorted = << >> THEN << r >>
    ELSE IF RangeLessEq(sorted[Len(sorted)], r) THEN Append(sorted, r)
    ELSE Append(SortedInsert(SubSeq(sorted, 1, Len(sorted) - 1), r),
                sorted[Len(sorted)])

RECURSIVE SortRanges(_)
SortRanges(rs) ==
    IF rs = << >> THEN << >>
    ELSE SortedInsert(SortRanges(SubSeq(rs, 1, Len(rs) - 1)), rs[Len(rs)])

MergedEndLast(prev_end, end) == end
\* max(prev_end, end)
MergedEnd(prev_end, end) == Max(prev_end, end)

\* combined_reason were every reason appended behind the separator.
CombinedReasonAlways(prev_reason, reason) == prev_reason \o << ";", " " >> \o reason

\* combined_reason
CombinedReason(prev_reason, reason) ==
    IF reason # << >> /\ ~IsSubstring(reason, prev_reason)
    THEN IF prev_reason # << >>
         THEN prev_reason \o << ";", " " >> \o reason
         ELSE reason
    ELSE prev_reason

\* The merge loop's iteration were it to merge overlapping ranges only.
MergeStepOverlapOnly(acc, r) ==
    LET prev == acc[Len(acc)]
    IN  IF r[1] <= prev[2]
        THEN [acc EXCEPT ![Len(acc)] =
                 << prev[1], MergedEnd(prev[2], r[2]), CombinedReason(prev[3], r[3]) >>]
        ELSE Append(acc, r)

\* One iteration of the merge loop over ranges[1:].
MergeStep(acc, r) ==
    LET prev == acc[Len(acc)]
    IN  IF r[1] <= prev[2] + 1
        THEN [acc EXCEPT ![Len(acc)] =
                 << prev[1], MergedEnd(prev[2], r[2]), CombinedReason(prev[3], r[3]) >>]
        ELSE Append(acc, r)

RECURSIVE MergeFrom(_, _)
MergeFrom(acc, rest) ==
    IF rest = << >> THEN acc ELSE MergeFrom(MergeStep(acc, Head(rest)), Tail(rest))

\* merged = [ranges[0]]; for ... in ranges[1:]  (ranges sorted, non-empty)
MergeRanges(sorted) == MergeFrom(<< sorted[1] >>, Tail(sorted))

\* f"{END_MARKER}{reason_text}"
EndMarkerLine(reason) ==
    END_MARKER \o (IF reason # << >> THEN << " (" >> \o reason \o << ")" >> ELSE << >>)

InsertionOrderForward(spans) == spans
\* reversed(merged)
InsertionOrder(spans) == Reversed(spans)

\* The body of the insertion loop for one span.
InsertSpan(result_lines, span) ==
    PyInsert(PyInsert(result_lines, span[2] + 1, EndMarkerLine(span[3])),
             span[1], START_MARKER)

RECURSIVE InsertAll(_, _)
InsertAll(result_lines, order) ==
    IF order = << >> THEN result_lines
    ELSE InsertAll(InsertSpan(result_lines, Head(order)), Tail(order))

\* result_lines = list(lines); for ... in reversed(merged): insert, insert
InsertMarkers(ls, spans) == InsertAll(ls, InsertionOrder(spans))

\* The candidates a window's response can hold for a document of n lines:
\* line numbers from below 1 to beyond the document, in either order, with a
\* reason; single-line candidates without a "reason" key; candidates
\* addressed by phrases, or by one line number only.
LineVals(n) == 0..(n + 1)
LineAddressed(n) == [start_line : LineVals(n), end_line : LineVals(n), reason : {<< "a" >>}]
NoReason(n) == {[start_line |-> v, end_line |-> v] : v \in 1..n}
PhraseAddressed == [start_phrase : {<< "a" >>}, end_phrase : {<< "b" >>}, reason : {<< "b" >>}]
HalfAddressed == [start_line : {1}, reason : {<< >>}] \cup [end_line : {1}, reason : {<< >>}]
Candidates(n) == LineAddressed(n) \cup NoReason(n) \cup PhraseAddressed \cup HalfAddressed

\* A response is JSON, so a value need not have the type the code expects.
\* A candidate's key "bad" names the keys whose value the code's conversion
\* rejects: a line number that is not numeric text ("abc": int() raises
\* ValueError), a reason that is not a string (5: it has no strip()). The
\* value the model stores under such a key is a placeholder. An element of
\* the response that is not an object (a number, a string) has the one key
\* "scalar".
IsObject(flag) == "scalar" \notin DOMAIN flag
NotConvertible(entry, key) == key \in Get(entry, "bad", {})

\* build_summary_header: entry.get("reason", "").strip() for every entry
SummaryRaises(flagged_ranges) ==
    \E k \in 1..Len(flagged_ranges) : NotConvertible(flagged_ranges[k], "reason")

\* insert_flags_by_lines: int(start), int(end) for every entry with both
CollectRaises(flagged_ranges) ==
    \E k \in 1..Len(flagged_ranges) :
        /\ HasLineNumbers(flagged_ranges[k])
        /\ \/ NotConvertible(flagged_ranges[k], "start_line")
           \/ NotConvertible(flagged_ranges[k], "end_line")

\* insert_flags_by_lines has no try: what its conversions raise, it raises.
InsertRaises(flagged_ranges) ==
    SummaryRaises(flagged_ranges) \/ CollectRaises(flagged_ranges)

\* all_flags.extend(flags): one more candidate from some window's response
AddFlag ==
    /\ apc = "collect"
    /\ Len(all_flags) < MaxFlags
    /\ \E entry \in Candidates(Len(lines)) : all_flags' = Append(all_flags, entry)
    /\ UNCHANGED <<summary, ranges, merged, flagged_text, apc>>
    /\ UNCHANGED <<chunkVars, drvVars, flagVars, parseVars>>

\* The caller's list were result_lines the list itself: the markers land
\* in it.
ListAliased(ls, result_lines) == result_lines

\* result_lines = list(lines): the markers are inserted into a copy, the
\* list the caller passed keeps its lines.
ListCopied(ls, result_lines) == ls

\* flagged_text = insert_flags_by_lines(lines, all_flags)
Annotate ==
    /\ apc = "collect"
    /\ ~InsertRaises(all_flags)
    /\ LET hdr == build_summary_header(all_flags)
           rs == CollectRanges(all_flags, Len(lines))
           mg == IF rs = << >> THEN << >> ELSE MergeRanges(SortRanges(rs))
       IN  /\ summary' = hdr
           /\ ranges' = rs
           /\ merged' = mg
           /\ flagged_text' = hdr \o InsertMarkers(lines, mg)
           /\ lines' = ListCopied(lines, InsertMarkers(lines, mg))
    /\ apc' = "done"
    /\ UNCHANGED <<all_flags, chunk_size, overlap, start, chunks, cpc>>
    /\ UNCHANGED <<drvVars, flagVars, parseVars>>

InitAnnot ==
    /\ lines \in {DocOfLen(n) : n \in 1..MaxLines}
    /\ chunk_size = 1
    /\ overlap = 0
    /\ start = 0
    /\ chunks = << >>
    /\ cpc = "off"
    /\ all_flags = << >>
    /\ summary = << >>
    /\ ranges = << >>
    /\ merged = << >>
    /\ flagged_text = << >>
    /\ apc = "collect"
    /\ DriverOff
    /\ FlagOff
    /\ ParseOff

NextAnnot ==
    \/ AddFlag
    \/ Annotate

SpecAnnot == InitAnnot /\ [][NextAnnot]_vars

\* ------------------------------------------------------- annotation claims
\* The line indices a list of (start, end, reason) spans covers.
Covered(spans) == UNION {spans[k][1] .. spans[k][2] : k \in 1..Len(spans)}

\* C3: the merged spans are in ascending start order, pairwise
\* non-overlapping, and cover exactly the line indices the resolved spans
\* cover.
C3_MergedSorted ==
    apc = "done" =>
        /\ \A k \in 1..Len(merged) : merged[k][1] <= merged[k][2]
        /\ \A k \in 1..(Len(merged) - 1) : merged[k][2] < merged[k + 1][1]
        /\ Covered(merged) = Covered(ranges)

C3_Witness ==
    /\ apc = "done"
    /\ Len(ranges) = 2
    /\ Len(merged) = 1
    /\ ranges[1][1] > ranges[2][1]
    /\ merged[1][2] > ranges[2][2]

\* The output without its summary header: the header opens with a "---"
\* line and closes with the next "---" line and the blank line after it.
HeaderClose(text) ==
    CHOOSE k \in 2..Len(text) :
        /\ text[k] = << "---" >>
        /\ \A j \in 2..(k - 1) : text[j] # << "---" >>
StripHeader(text) == SubSeq(text, HeaderClose(text) + 2, Len(text))

\* A line that reads as a START or END marker.
IsMarkerLine(l) == l = START_MARKER \/ (l # << >> /\ Head(l) = END_MARKER[1])

\* body, with some of its marker lines deleted, is exactly orig.
RECURSIVE StripsTo(_, _)
StripsTo(body, orig) ==
    IF body = << >> THEN orig = << >>
    ELSE \/ IsMarkerLine(Head(body)) /\ StripsTo(Tail(body), orig)
         \/ /\ orig # << >>
            /\ Head(body) = Head(orig)
            /\ StripsTo(Tail(body), Tail(orig))

\* C4: taking the summary header and the inserted START/END marker lines
\* (two per merged span) out of the output of insert_flags_by_lines gives
\* back the original lines, in order.
C4_RoundTrip ==
    apc = "done" =>
        /\ flagged_text[1] = << "---" >>
        /\ flagged_text[HeaderClose(flagged_text) + 1] = << >>
        /\ Len(StripHeader(flagged_text)) = Len(lines) + 2 * Len(merged)
        /\ StripsTo(StripHeader(flagged_text), lines)

C4_Witness ==
    /\ apc = "done"
    /\ Len(merged) = 2
    /\ Len(lines) >= 3
    /\ merged[1][1] <= 1
    /\ 1 <= merged[1][2]

\* C5: in the output body every merged span (s, e) reads START marker, the
\* original lines s..e in order, END marker (with the span's reason); the
\* markers of the spans before it shift it by two lines each and by nothing
\* else.
C5_SpansBracketed ==
    apc = "done" =>
        LET body == SubSeq(flagged_text, Len(summary) + 1, Len(flagged_text))
        IN  \A k \in 1..Len(merged) :
                LET s == merged[k][1]
                    e == merged[k][2]
                    at == s + 2 * (k - 1) + 1
                IN  /\ at + (e - s) + 2 <= Len(body)
                    /\ body[at] = START_MARKER
                    /\ \A i \in s..e : body[at + 1 + (i - s)] = lines[i + 1]
                    /\ body[at + (e - s) + 2] = EndMarkerLine(merged[k][3])

C5_Witness ==
    /\ apc = "done"
    /\ Len(merged) = 2
    /\ merged[1][2] > merged[1][1]

\* The candidates that carry both line numbers, in order.
LineFlags == SelectSeq(all_flags, HasLineNumbers)

\* C6: every candidate with start_line and end_line, whatever integers they
\* are, resolves to 0 <= start <= end <= lineCount - 1, and an end_line
\* beyond the document resolves to the last line index.
C6_ResolvedInBounds ==
    apc = "done" =>
        /\ Len(ranges) = Len(LineFlags)
        /\ \A k \in 1..Len(ranges) :
              /\ 0 <= ranges[k][1]
              /\ ranges[k][1] <= ranges[k][2]
              /\ ranges[k][2] <= Len(lines) - 1
              /\ LineFlags[k].end_line > Len(lines) => ranges[k][2] = Len(lines) - 1

C6_Witness ==
    /\ apc = "done"
    /\ Len(ranges) = 2
    /\ LineFlags[1].start_line < 1
    /\ LineFlags[1].end_line > Len(lines)
    /\ LineFlags[2].end_line < LineFlags[2].start_line
    /\ LineFlags[2].start_line > Len(lines)

\* ------------------------------------------------------------------ driver
\* The text documents the folders can hold: two of the same name, one in the
\* root and one in the transcriptions folder, and one more in the root.
Docs ==
    { [dir |-> "root", stem |-> "a", suffix |-> ".md"],
      [dir |-> "root", stem |-> "b", suffix |-> ".txt"],
      [dir |-> "transcriptions", stem |-> "a", suffix |-> ".md"] }

\* The files the transcriber can write into the transcriptions folder.
Transcribed ==
    { [dir |-> "transcriptions", stem |-> "c", suffix |-> ".md"],
      [dir |-> "transcriptions", stem |-> "c_1", suffix |-> ".md"] }

Paths == Docs \cup Transcribed

\* No file holds a line.
NoText == [d \in Paths |-> << >>]

\* discover_text_files: the root's files, then the transcriptions folder's,
\* each folder in the order iterdir() happens to give.
DiscoverOrders(present) ==
    { f \in [1..Cardinality(present) -> present] :
        /\ \A i, j \in DOMAIN f : i # j => f[i] # f[j]
        /\ \A i, j \in DOMAIN f :
              (i < j) => ~(f[i].dir = "transcriptions" /\ f[j].dir = "root") }

FlockShared(holder) == TRUE
\* fcntl.flock(f, LOCK_EX | LOCK_NB) succeeds iff no other open file holds it
FlockGranted(holder) == holder = "none"

HolderAfterCloseAny(holder, p) == "none"
\* Closing p's own descriptor of the lock file drops only a lock p holds.
HolderAfterClose(holder, p) == IF holder = p THEN "none" ELSE holder

ReleaseSkipped(holder, p) == holder
\* FileLock.release(), also run by __exit__ and by the kernel at process end.
Released(holder, p) == HolderAfterClose(holder, p)

PipelineMoveFirst == << "flag_file", "move", "write_open", "write_close" >>
\* The body of "for file_path in files": flag_file, write_text (open, then
\* written and closed), shutil.move.
PipelineSteps == << "flag_file", "write_open", "write_close", "move" >>

StepIndex(step) == CHOOSE k \in 1..Len(PipelineSteps) : PipelineSteps[k] = step

\* Control after `step` of the loop body: the next step, the next file, or
\* the end of the loop.
Advance(p, step) ==
    IF StepIndex(step) < Len(PipelineSteps)
    THEN /\ pc' = [pc EXCEPT ![p] = PipelineSteps[StepIndex(step) + 1]]
         /\ UNCHANGED fidx
    ELSE IF fidx[p] < Len(files[p])
    THEN /\ pc' = [pc EXCEPT ![p] = PipelineSteps[1]]
         /\ fidx' = [fidx EXCEPT ![p] = fidx[p] + 1]
    ELSE /\ pc' = [pc EXCEPT ![p] = "finish"]
         /\ UNCHANGED fidx

\* file_path of the running iteration
CurrentFile(p) == files[p][fidx[p]]

\* The name were there no collision loop: always the one without a counter.
FirstFreeNoLoop(dir, stem, suffix) == 0

\* The first of stem<tag>.ext, stem<tag>_1.ext, stem<tag>_2.ext, ... that no
\* file of the directory has; 0 stands for the name without a counter.
FirstFree(dir, stem, suffix) ==
    LET taken == {f.name[2] : f \in {g \in dir : g.name[1] = stem /\ g.name[3] = suffix}}
    IN  CHOOSE k \in 0..Cardinality(taken) :
            /\ k \notin taken
            /\ \A j \in 0..(k - 1) : j \in taken

\* The files on disk, as paths. The review and archive directories are the
\* configured sub-folders of the root ("FLAGGED" unless configured; the
\* archive folder), different from the root and the transcriptions folder.
CounterText(k) == IF k = 0 THEN "" ELSE "_" \o ToString(k)
ReviewPath(f) ==
    [dir |-> "flagged", stem |-> f.name[1] \o "_review" \o CounterText(f.name[2]),
     suffix |-> f.name[3]]
ArchivePath(f) ==
    [dir |-> "archive", stem |-> f.name[1] \o CounterText(f.name[2]), suffix |-> f.name[3]]
FileSystem == src \cup {ReviewPath(f) : f \in review} \cup {ArchivePath(f) : f \in archive}

SearchDirsRecursive == {"root", "transcriptions", "flagged", "archive"}
\* for search_dir in [root, transcriptions_dir]: search_dir.iterdir(), which
\* does not descend into sub-folders (f.is_dir() entries are skipped)
SearchDirs == {"root", "transcriptions"}

TEXT_EXTENSIONS == {".md", ".txt"}

\* The files discover_text_files collects.
Scanned == {f \in FileSystem : f.dir \in SearchDirs /\ f.suffix \in TEXT_EXTENSIONS}

\* with FileLock("flag"): acquire() succeeds
AcquireOk(p) ==
    /\ pc[p] = "enter"
    /\ FlockGranted(flock_holder)
    /\ flock_holder' = p
    /\ acquired' = [acquired EXCEPT ![p] = TRUE]
    /\ pc' = [pc EXCEPT ![p] = "discover"]
    /\ UNCHANGED <<src, unreadable, review, archive, files, fidx, out_path, exit_code>>
    /\ UNCHANGED <<chunkVars, annotVars, flagVars, parseVars, trVars>>

\* acquire() fails: close the lock file, log, sys.exit(0)
AcquireBusy(p) ==
    /\ pc[p] = "enter"
    /\ ~FlockGranted(flock_holder)
    /\ flock_holder' = HolderAfterClose(flock_holder, p)
    /\ pc' = [pc EXCEPT ![p] = "exited"]
    /\ exit_code' = [exit_code EXCEPT ![p] = "0"]
    /\ UNCHANGED <<src, unreadable, review, archive, acquired, files, fidx, out_path>>
    /\ UNCHANGED <<chunkVars, annotVars, flagVars, parseVars, trVars>>

\* load_config .. discover_text_files; "if not files: return"
Discover(p) ==
    /\ pc[p] = "discover"
    /\ \E order \in DiscoverOrders(Scanned) :
          /\ files' = [files EXCEPT ![p] = order]
          /\ IF order = << >>
             THEN /\ flock_holder' = Released(flock_holder, p)
                  /\ pc' = [pc EXCEPT ![p] = "exited"]
                  /\ exit_code' = [exit_code EXCEPT ![p] = "0"]
                  /\ UNCHANGED fidx
             ELSE /\ fidx' = [fidx EXCEPT ![p] = 1]
                  /\ pc' = [pc EXCEPT ![p] = PipelineSteps[1]]
                  /\ UNCHANGED <<flock_holder, exit_code>>
    /\ UNCHANGED <<src, unreadable, review, archive, acquired, out_path>>
    /\ UNCHANGED <<chunkVars, annotVars, flagVars, parseVars, trVars>>

\* flagged_text = flag_file(file_path, config)
FlagFile(p) ==
    /\ pc[p] = "flag_file"
    /\ CurrentFile(p) \in src
    /\ CurrentFile(p) \notin unreadable
    /\ read_partial' = [read_partial EXCEPT ![p] = CurrentFile(p) \in writing]
    /\ Advance(p, "flag_file")
    /\ UNCHANGED <<src, unreadable, review, archive, flock_holder, acquired, files,
                   out_path, exit_code>>
    /\ UNCHANGED <<media, tflock_holder, tpc, tfiles, tidx, tout_path, writing, doc_text>>
    /\ UNCHANGED <<chunkVars, annotVars, flagVars, parseVars>>

\* read_text raises: nothing in main() catches it, __exit__ releases the
\* lock and the process ends with the traceback.
FlagFileRaises(p) ==
    /\ pc[p] = "flag_file"
    /\ \/ CurrentFile(p) \notin src
       \/ CurrentFile(p) \in unreadable
    /\ flock_holder' = Released(flock_holder, p)
    /\ pc' = [pc EXCEPT ![p] = "exited"]
    /\ exit_code' = [exit_code EXCEPT ![p] = "1"]
    /\ UNCHANGED <<src, unreadable, review, archive, acquired, files, fidx, out_path>>
    /\ UNCHANGED <<chunkVars, annotVars, flagVars, parseVars, trVars>>

\* The collision loop, then write_text opens out_path: the file exists,
\* nothing of the text is in it yet.
WriteOpen(p) ==
    /\ pc[p] = "write_open"
    /\ LET d == CurrentFile(p)
           name == << d.stem, FirstFree(review, d.stem, d.suffix), d.suffix >>
       IN  /\ out_path' = [out_path EXCEPT ![p] = name]
           /\ review' = review \cup {[name |-> name, doc |-> d, complete |-> FALSE,
                                      text |-> << >>]}
    /\ Advance(p, "write_open")
    /\ UNCHANGED <<src, unreadable, archive, flock_holder, acquired, files, exit_code>>
    /\ UNCHANGED <<chunkVars, annotVars, flagVars, parseVars, trVars>>

\* write_text has written the text and closed the file.
WriteClose(p) ==
    /\ pc[p] = "write_close"
    /\ review' = {IF f.name = out_path[p]
                  THEN [f EXCEPT !.complete = TRUE, !.text = flagged_text]
                  ELSE f : f \in review}
    /\ Advance(p, "write_close")
    /\ UNCHANGED <<src, unreadable, archive, flock_holder, acquired, files, out_path,
                   exit_code>>
    /\ UNCHANGED <<chunkVars, annotVars, flagVars, parseVars, trVars>>

\* The collision loop, then shutil.move(file_path, archive_dest): a rename.
Move(p) ==
    /\ pc[p] = "move"
    /\ CurrentFile(p) \in src
    /\ LET d == CurrentFile(p)
           name == << d.stem, FirstFree(archive, d.stem, d.suffix), d.suffix >>
       IN  /\ src' = src \ {d}
           /\ archive' = archive \cup {[name |-> name, doc |-> d, text |-> doc_text[d]]}
    /\ Advance(p, "move")
    /\ UNCHANGED <<unreadable, review, flock_holder, acquired, files, out_path,
                   exit_code>>
    /\ UNCHANGED <<chunkVars, annotVars, flagVars, parseVars, trVars>>

\* logger.info("Flagging complete."), __exit__ releases the lock.
Finish(p) ==
    /\ pc[p] = "finish"
    /\ flock_holder' = Released(flock_holder, p)
    /\ pc' = [pc EXCEPT ![p] = "exited"]
    /\ exit_code' = [exit_code EXCEPT ![p] = "0"]
    /\ UNCHANGED <<src, unreadable, review, archive, acquired, files, fidx, out_path>>
    /\ UNCHANGED <<chunkVars, annotVars, flagVars, parseVars, trVars>>

\* The process is terminated at whatever step it has reached; the kernel
\* closes its files, which drops a flock it holds.
Kill(p) ==
    /\ pc[p] \notin {"exited", "killed"}
    /\ flock_holder' = Released(flock_holder, p)
    /\ pc' = [pc EXCEPT ![p] = "killed"]
    /\ exit_code' = [exit_code EXCEPT ![p] = "killed"]
    /\ UNCHANGED <<src, unreadable, review, archive, acquired, files, fidx, out_path>>
    /\ UNCHANGED <<chunkVars, annotVars, flagVars, parseVars, trVars>>

Init ==
    /\ src \in SUBSET Docs
    /\ unreadable \in SUBSET {d \in Docs : d.stem = "b"}
    /\ review = {}
    /\ archive = {}
    /\ flock_holder = "none"
    /\ pc = [p \in Procs |-> "enter"]
    /\ acquired = [p \in Procs |-> FALSE]
    /\ files = [p \in Procs |-> << >>]
    /\ fidx = [p \in Procs |-> 0]
    /\ out_path = [p \in Procs |-> << >>]
    /\ exit_code = [p \in Procs |-> "none"]
    /\ media = {}
    /\ tflock_holder = "none"
    /\ tpc = "off"
    /\ tfiles = << >>
    /\ tidx = 0
    /\ tout_path = << >>
    /\ writing = {}
    /\ read_partial = [p \in Procs |-> FALSE]
    /\ doc_text = NoText
    /\ lines = << >>
    /\ chunk_size = 1
    /\ overlap = 0
    /\ start = 0
    /\ chunks = << >>
    /\ cpc = "off"
    /\ AnnotOff
    /\ FlagOff
    /\ ParseOff

Next ==
    \E p \in Procs :
        \/ AcquireOk(p)
        \/ AcquireBusy(p)
        \/ Discover(p)
        \/ FlagFile(p)
        \/ FlagFileRaises(p)
        \/ WriteOpen(p)
        \/ WriteClose(p)
        \/ Move(p)
        \/ Finish(p)
        \/ Kill(p)

Spec == Init /\ [][Next]_vars

\* ------------------------------------------------------------ driver claims
Archived(d) == \E f \in archive : f.doc = d
ReviewWritten(d) == \E f \in review : f.doc = d /\ f.complete
ReviewExists(d) == \E f \in review : f.doc = d
Discovered(p) == {files[p][i] : i \in 1..Len(files[p])}
Ended(p) == pc[p] \in {"exited", "killed"}

\* C7: in every reachable state, a termination after any step included, a
\* discovered original is in the archive only if a review artifact of it has
\* been completely written, and it is in its source folder or in the archive.
C7_ArchiveAfterReview ==
    \A p \in Procs : \A d \in Discovered(p) :
        /\ d \in src \/ Archived(d)
        /\ Archived(d) => ReviewWritten(d)

C7_Witness ==
    \E p, q \in Procs : \E d \in Discovered(p) :
        /\ pc[p] = "killed"
        /\ pc[q] = "exited"
        /\ Archived(d)
        /\ \E f \in review : f.doc = d /\ ~f.complete

\* C8: whenever an invocation has ended (completion, an uncaught exception,
\* termination at any step) and no other invocation is at work, every
\* document it discovered is untouched with no review artifact, or archived
\* with its review artifact written.
C8_AllOrNothing ==
    \A p \in Procs :
        (Ended(p) /\ flock_holder = "none") =>
            \A d \in Discovered(p) :
                \/ d \in src /\ ~ReviewExists(d)
                \/ d \notin src /\ Archived(d) /\ ReviewWritten(d)

\* The steps of main() inside "with FileLock(...)".
Working(p) ==
    pc[p] \in {"discover", "flag_file", "write_open", "write_close", "move", "finish"}

\* C9: at most one invocation at a time holds the "flag" lock and is
\* discovering, screening, writing or archiving.
C9_OneFlagger ==
    /\ \A p, q \in Procs : (Working(p) /\ Working(q)) => p = q
    /\ \A p \in Procs : Working(p) => flock_holder = p

C9_Witness ==
    \E p, q \in Procs :
        /\ pc[p] = "write_close"
        /\ pc[q] = "exited"
        /\ ~acquired[q]

\* C10: an invocation that fails to acquire the lock ends at once with exit
\* code 0; that step changes no folder and leaves the lock with its holder,
\* and the invocation has discovered nothing.
C10_BusyExit ==
    [][\A p \in Procs :
          (pc[p] = "enter" /\ flock_holder \notin {"none", p} /\ pc'[p] \notin {"enter", "killed"})
              => /\ pc'[p] = "exited"
                 /\ exit_code'[p] = "0"
                 /\ files'[p] = << >>
                 /\ ~acquired'[p]
                 /\ flock_holder' = flock_holder
                 /\ UNCHANGED <<src, review, archive>>]_vars

C10_Witness ==
    \E p, q \in Procs :
        /\ pc[p] = "exited"
        /\ ~acquired[p]
        /\ exit_code[p] = "0"
        /\ flock_holder = q
        /\ pc[q] = "move"

\* C11: a discovered document that cannot be read is skipped (no review
\* artifact, the original left in place) and the run goes on: when an
\* invocation that held the lock has ended by itself, every other document
\* it discovered, before or after the unreadable one, has its review
\* artifact written and is archived.
C11_UnreadableSkipped ==
    \A p \in Procs :
        (pc[p] = "exited" /\ acquired[p]) =>
            \A d \in Discovered(p) :
                IF d \in unreadable
                THEN d \in src /\ ~ReviewExists(d)
                ELSE Archived(d) /\ ReviewWritten(d)

\* ---------------------------------------------------------------- flag_file
\* f"{global_line:04d}"
Format04d(num) ==
    IF num < 10 THEN << "000", ToString(num) >>
    ELSE IF num < 100 THEN << "00", ToString(num) >>
    ELSE IF num < 1000 THEN << "0", ToString(num) >>
    ELSE << ToString(num) >>

\* The numbering were it to restart at 1 in every window.
NumberedLocal(start_offset, chunk) ==
    [j \in 1..Len(chunk) |-> Format04d(j) \o << "| " >> \o chunk[j]]

\* numbered: the window's lines, each behind its global line number
\* (global_line = start_offset + j + 1 for Python's j = 0, 1, ...)
Numbered(start_offset, chunk) ==
    [j \in 1..Len(chunk) |->
        Format04d(start_offset + (j - 1) + 1) \o << "| " >> \o chunk[j]]

\* What a window's response can parse to for a document of n lines: nothing,
\* one or two well-formed single-line candidates, a candidate with one line
\* number only, a candidate whose start_line is not numeric, a candidate
\* whose reason is not a string, and a list holding a candidate and a number.
GoodAt(v) == [start_line |-> v, end_line |-> v, reason |-> << "a" >>]
NonNumericStart ==
    [start_line |-> 0, end_line |-> 1, reason |-> << "a" >>, bad |-> {"start_line"}]
NonStringReason ==
    [start_line |-> 1, end_line |-> 1, reason |-> << >>, bad |-> {"reason"}]
NotAnObject == [scalar |-> TRUE]
Replies(n) ==
    { << >>, << GoodAt(1) >>, << GoodAt(n) >>, << GoodAt(1), GoodAt(n) >>,
      << [start_line |-> 1, reason |-> << "a" >>] >>,
      << NonNumericStart >>, << NonStringReason >>,
      << GoodAt(1), NotAnObject >> }

\* "for flag in flags: reason = flag.get(...)" raises AttributeError at the
\* first element that is not an object.
LoggingRaises(flags) == \E k \in 1..Len(flags) : ~IsObject(flags[k])

AfterErrorBreak(i) == Len(chunks) + 1
\* except Exception as e: logger.error(...); continue
AfterError(i) == i + 1

\* The position were the classifier's exception not caught: flag_file
\* raises.
LoopPositionRaised(next) == "raised"

\* for ... in enumerate(chunks) is over: insert_flags_by_lines is next
LoopPosition(next) == IF next > Len(chunks) THEN "collect" ELSE "windows"

\* One iteration whose ollama.chat(...) (or response["message"]["content"])
\* raises: the except branch, nothing is added to all_flags.
ClassifyRaises ==
    /\ cpc = "done"
    /\ apc = "windows"
    /\ win <= Len(chunks)
    /\ prompts' = Append(prompts, [start_offset |-> chunks[win].start,
                                   numbered |-> Numbered(chunks[win].start,
                                                         chunks[win].chunk)])
    /\ replies' = Append(replies, [raised |-> TRUE, flags |-> << >>])
    /\ win' = AfterError(win)
    /\ apc' = LoopPosition(win')
    /\ UNCHANGED <<all_flags, summary, ranges, merged, flagged_text>>
    /\ UNCHANGED <<chunkVars, drvVars, parseVars>>

\* One iteration whose call returns: flags = parse_llm_response(...), the
\* logging loop over flags, then all_flags.extend(flags); the logging loop's
\* exception is caught by the same except branch, before extend.
ClassifyReturns ==
    /\ cpc = "done"
    /\ apc = "windows"
    /\ win <= Len(chunks)
    /\ \E flags \in Replies(Len(lines)) :
          /\ replies' = Append(replies, [raised |-> FALSE, flags |-> flags])
          /\ IF LoggingRaises(flags)
             THEN /\ win' = AfterError(win)
                  /\ UNCHANGED all_flags
             ELSE /\ win' = win + 1
                  /\ all_flags' = all_flags \o flags
    /\ prompts' = Append(prompts, [start_offset |-> chunks[win].start,
                                   numbered |-> Numbered(chunks[win].start,
                                                         chunks[win].chunk)])
    /\ apc' = LoopPosition(win')
    /\ UNCHANGED <<summary, ranges, merged, flagged_text>>
    /\ UNCHANGED <<chunkVars, drvVars, parseVars>>

\* flagged_text = insert_flags_by_lines(lines, all_flags) raises, and so
\* does flag_file (the call is outside the try).
AnnotateRaises ==
    /\ apc = "collect"
    /\ InsertRaises(all_flags)
    /\ apc' = "raised"
    /\ UNCHANGED <<all_flags, summary, ranges, merged, flagged_text>>
    /\ UNCHANGED <<chunkVars, drvVars, flagVars, parseVars>>

\* flag_file entered with a document that was read, under a configuration
\* with 0 <= chunk_overlap_lines < chunk_size_lines.
InitFlag ==
    /\ lines \in {DocOfLen(n) : n \in 1..MaxLen}
    /\ chunk_size \in 1..MaxChunk
    /\ overlap \in 0..(chunk_size - 1)
    /\ start = 0
    /\ chunks = << >>
    /\ cpc = "call"
    /\ all_flags = << >>
    /\ summary = << >>
    /\ ranges = << >>
    /\ merged = << >>
    /\ flagged_text = << >>
    /\ apc = "windows"
    /\ win = 1
    /\ prompts = << >>
    /\ replies = << >>
    /\ DriverOff
    /\ ParseOff

NextFlag ==
    \/ ChunkSingle
    \/ ChunkEnter
    \/ ChunkLast
    \/ ChunkAdvance
    \/ ClassifyRaises
    \/ ClassifyReturns
    \/ Annotate
    \/ AnnotateRaises

SpecFlag == InitFlag /\ [][NextFlag]_vars

\* ---------------------------------------------------------- flag_file claims
\* The flags of the windows whose iteration reached all_flags.extend.
RECURSIVE KeptFlags(_)
KeptFlags(rs) ==
    IF rs = << >> THEN << >>
    ELSE (IF Head(rs).raised \/ LoggingRaises(Head(rs).flags)
          THEN << >> ELSE Head(rs).flags)
         \o KeptFlags(Tail(rs))

\* C12: a window whose classifier call raises contributes no spans, the
\* spans collected from the other windows are kept, and every window of the
\* document is submitted: once the loop is over there is one prompt per
\* window, in the windows' order, and all_flags is always the concatenation
\* of the flags of the iterations that did not fail.
C12_WindowFailureIsolated ==
    (cpc = "done" /\ apc # "off") =>
        /\ all_flags = KeptFlags(replies)
        /\ apc # "windows" =>
              /\ Len(prompts) = Len(chunks)
              /\ \A k \in 1..Len(chunks) :
                    /\ prompts[k].start_offset = chunks[k].start
                    /\ Len(prompts[k].numbered) = Len(chunks[k].chunk)

C12_Witness ==
    /\ apc = "done"
    /\ Len(replies) >= 3
    /\ replies[1].flags = << GoodAt(1) >>
    /\ replies[2].raised
    /\ ~replies[3].raised
    /\ replies[3].flags = << GoodAt(Len(lines)) >>
    /\ all_flags = << GoodAt(1), GoodAt(Len(lines)) >>
    /\ Len(prompts) = Len(chunks)

\* Every element the classifier returned for the document, window by window.
RECURSIVE AllReturned(_)
AllReturned(rs) ==
    IF rs = << >> THEN << >> ELSE Head(rs).flags \o AllReturned(Tail(rs))

WellFormed(flag) == IsObject(flag) /\ Get(flag, "bad", {}) = {}

\* C13: a malformed candidate (a line number that is not numeric, a reason
\* that is not a string, an element that is not an object) is dropped
\* without raising: flag_file ends by returning the annotated text, and
\* every well-formed candidate the classifier returned for the document
\* that has both line numbers is resolved.
C13_MalformedDropped ==
    (cpc = "done" /\ apc \in {"done", "raised"}) =>
        /\ apc = "done"
        /\ Len(ranges) =
              Cardinality({k \in 1..Len(AllReturned(replies)) :
                              /\ WellFormed(AllReturned(replies)[k])
                              /\ HasLineNumbers(AllReturned(replies)[k])})

\* ------------------------------------------------------- parse_llm_response
\* A response text is a sequence of tokens: the JSON punctuation "[", "]",
\* "{", "}", ",", ":", a number "1", a string literal "s", a word of prose
\* "w", white space " ", a code fence "FENCE" (three backquotes), "json".

\* text.startswith("FENCE")
StartsWithFence(t) == t # << >> /\ Head(t) = "FENCE"

\* re.sub(r"^FENCE(?:json)?\s*", "", text), for a text that starts with a fence
StripOpenFence(t) ==
    LET after == Tail(t)
    IN  LStrip(IF after # << >> /\ Head(after) = "json" THEN Tail(after) ELSE after)

\* re.sub(r"\s*FENCE$", "", text)
StripCloseFence(t) ==
    IF t # << >> /\ t[Len(t)] = "FENCE"
    THEN Reversed(LStrip(Tail(Reversed(t))))
    ELSE t

\* json.loads: a recursive-descent reading of one value at position i;
\* next is the position behind it.
Failed == [ok |-> FALSE, value |-> NoValue, next |-> 0]
Read(value, next) == [ok |-> TRUE, value |-> value, next |-> next]
TokenAt(t, i) == IF i >= 1 /\ i <= Len(t) THEN t[i] ELSE "end"

RECURSIVE ParseValue(_, _)
RECURSIVE ParseElements(_, _, _)
RECURSIVE ParseMembers(_, _, _)
ParseValue(t, i) ==
    CASE TokenAt(t, i) = "1" -> Read(JNum, i + 1)
      [] TokenAt(t, i) = "s" -> Read(JStr, i + 1)
      [] TokenAt(t, i) = "[" ->
            IF TokenAt(t, i + 1) = "]" THEN Read(JList(<< >>), i + 2)
            ELSE ParseElements(t, i + 1, << >>)
      [] TokenAt(t, i) = "{" ->
            IF TokenAt(t, i + 1) = "}" THEN Read(JDict(<< >>), i + 2)
            ELSE ParseMembers(t, i + 1, << >>)
      [] OTHER -> Failed

ParseElements(t, i, acc) ==
    LET r == ParseValue(t, i)
    IN  IF ~r.ok THEN Failed
        ELSE IF TokenAt(t, r.next) = ","
             THEN ParseElements(t, r.next + 1, Append(acc, r.value))
        ELSE IF TokenAt(t, r.next) = "]"
             THEN Read(JList(Append(acc, r.value)), r.next + 1)
        ELSE Failed

\* Every key is the string "s": a later member replaces an earlier one.
ParseMembers(t, i, acc) ==
    IF TokenAt(t, i) # "s" \/ TokenAt(t, i + 1) # ":" THEN Failed
    ELSE LET r == ParseValue(t, i + 2)
         IN  IF ~r.ok THEN Failed
             ELSE IF TokenAt(t, r.next) = ","
                  THEN ParseMembers(t, r.next + 1, << r.value >>)
             ELSE IF TokenAt(t, r.next) = "}"
                  THEN Read(JDict(<< r.value >>), r.next + 1)
             ELSE Failed

IsWhitespace(tok) == tok = " "
NotWhitespace(tok) == ~IsWhitespace(tok)

\* json.loads(text): white space between tokens is skipped, the whole text
\* must be one value; otherwise JSONDecodeError.
JsonLoads(t) ==
    LET u == SelectSeq(t, NotWhitespace)
        r == ParseValue(u, 1)
    IN  IF r.ok /\ r.next = Len(u) + 1
        THEN [ok |-> TRUE, value |-> r.value, exc |-> "none"]
        ELSE [ok |-> FALSE, value |-> NoValue, exc |-> "JSONDecodeError"]

\* isinstance(result, list)
IsList(value) == value.type = "list"

ExceptNothing(exc) == FALSE
\* except json.JSONDecodeError: pass
ExceptJSONDecodeError(exc) == exc = "JSONDecodeError"

\* re.search(r"\[.*\]", text, re.DOTALL): the leftmost "[" and, ".*" being
\* greedy, the last "]" behind it.
RegexSearch(t) ==
    LET opens == {k \in 1..Len(t) : t[k] = "["}
        closes == {k \in 1..Len(t) : t[k] = "]"}
    IN  IF opens = {} \/ closes = {} THEN [found |-> FALSE, group |-> << >>]
        ELSE LET a == CHOOSE k \in opens : \A j \in opens : k <= j
                 b == CHOOSE k \in closes : \A j \in closes : j <= k
             IN  IF a < b THEN [found |-> TRUE, group |-> SubSeq(t, a, b)]
                 ELSE [found |-> FALSE, group |-> << >>]

\* text = response_text.strip(), then the fence removal
StripFences ==
    /\ ppc = "call"
    /\ ptext' = LET stripped == Strip(response_text)
                IN  IF StartsWithFence(stripped)
                    THEN StripCloseFence(StripOpenFence(stripped))
                    ELSE stripped
    /\ ppc' = "direct"
    /\ UNCHANGED <<response_text, parsed>>
    /\ UNCHANGED <<chunkVars, annotVars, drvVars, flagVars>>

\* try: result = json.loads(text); if isinstance(result, list): return result
DirectParse ==
    /\ ppc = "direct"
    /\ LET r == JsonLoads(ptext)
       IN  IF r.ok /\ IsList(r.value)
           THEN parsed' = r.value /\ ppc' = "returned"
           ELSE IF r.ok \/ ExceptJSONDecodeError(r.exc)
           THEN ppc' = "search" /\ UNCHANGED parsed
           ELSE ppc' = "raised" /\ UNCHANGED parsed
    /\ UNCHANGED <<response_text, ptext>>
    /\ UNCHANGED <<chunkVars, annotVars, drvVars, flagVars>>

\* match = re.search(...); the second json.loads; return []
SearchArray ==
    /\ ppc = "search"
    /\ LET match == RegexSearch(ptext)
           r == JsonLoads(match.group)
       IN  IF match.found /\ r.ok /\ IsList(r.value)
           THEN parsed' = r.value /\ ppc' = "returned"
           ELSE IF ~match.found \/ r.ok \/ ExceptJSONDecodeError(r.exc)
           THEN parsed' = JList(<< >>) /\ ppc' = "returned"
           ELSE ppc' = "raised" /\ UNCHANGED parsed
    /\ UNCHANGED <<response_text, ptext>>
    /\ UNCHANGED <<chunkVars, annotVars, drvVars, flagVars>>

\* The JSON values of nesting depth up to d: scalars, empty containers,
\* containers of one value, lists of two shallow values.
Shallow == {JNum, JStr, JList(<< >>), JDict(<< >>)}
RECURSIVE JsonValues(_)
JsonValues(d) ==
    IF d = 0 THEN Shallow
    ELSE LET inner == JsonValues(d - 1)
         IN  inner \cup {JList(<< v >>) : v \in inner}
                   \cup {JDict(<< v >>) : v \in inner}
                   \cup {JList(<< v, w >>) : v \in Shallow, w \in Shallow}

\* json.dumps, token by token.
RECURSIVE Render(_)
RECURSIVE RenderItems(_)
Render(value) ==
    CASE value.type = "num" -> << "1" >>
      [] value.type = "str" -> << "s" >>
      [] value.type = "list" -> << "[" >> \o RenderItems(value.items) \o << "]" >>
      [] value.type = "dict" ->
            IF value.items = << >> THEN << "{", "}" >>
            ELSE << "{", "s", ":" >> \o Render(value.items[1]) \o << "}" >>

RenderItems(items) ==
    IF items = << >> THEN << >>
    ELSE IF Len(items) = 1 THEN Render(Head(items))
    ELSE Render(Head(items)) \o << "," >> \o RenderItems(Tail(items))

\* What the model answers with: a JSON value, whole or cut short by one
\* token, or nothing; prose around it, with or without brackets of its own;
\* bare, or inside a code fence.
Payloads ==
    {Render(v) : v \in JsonValues(MaxDepth)}
        \cup {SubSeq(Render(v), 1, Len(Render(v)) - 1) : v \in JsonValues(MaxDepth)}
ProseBefore == { << >>, << "w" >>, << "w", "[", "1", "]", "w" >>, << "w", "]", "w" >> }
ProseAfter == { << >>, << "w" >>, << "w", "[", "1", "]" >>, << "w", "[" >> }
Wrap(kind, body) ==
    CASE kind = "bare" -> body
      [] kind = "padded" -> << " " >> \o body \o << " " >>
      [] kind = "fence" -> << "FENCE", " " >> \o body \o << " ", "FENCE" >>
      [] kind = "json_fence" -> << " ", "FENCE", "json", " " >> \o body \o << " ", "FENCE", " " >>
      [] kind = "open_fence" -> << "FENCE", "json", " " >> \o body
Wrappers == {"bare", "padded", "fence", "json_fence", "open_fence"}

InitParse ==
    /\ \E payload \in Payloads, before \in ProseBefore, after \in ProseAfter,
          kind \in Wrappers :
          response_text = Wrap(kind, before \o payload \o after)
    /\ ptext = << >>
    /\ parsed = NoValue
    /\ ppc = "call"
    /\ lines = << >>
    /\ chunk_size = 1
    /\ overlap = 0
    /\ start = 0
    /\ chunks = << >>
    /\ cpc = "off"
    /\ AnnotOff
    /\ DriverOff
    /\ FlagOff

NextParse ==
    \/ StripFences
    \/ DirectParse
    \/ SearchArray

SpecParse == InitParse /\ [][NextParse]_vars

\* -------------------------------------------------- parse_llm_response claims
\* Some stretch of the text, from a "[" to a "]", is a JSON array.
ContainsArray(t) ==
    \E a \in 1..Len(t), b \in 1..Len(t) :
        /\ a < b
        /\ t[a] = "["
        /\ t[b] = "]"
        /\ JsonLoads(SubSeq(t, a, b)).ok

C15_NonListGivesEmpty ==
    (ppc = "returned" /\ JsonLoads(ptext).ok /\ ~IsList(JsonLoads(ptext).value))
        => parsed = JList(<< >>)

\* The first balanced [...] region of a text: from its first "[" to the
\* first position where as many "]" as "[" have been read.
BracketDepth(t, a, b) ==
    Cardinality({k \in a..b : t[k] = "["}) - Cardinality({k \in a..b : t[k] = "]"})
HasBalancedRegion(t) ==
    \E a \in 1..Len(t) :
        /\ t[a] = "["
        /\ \A j \in 1..(a - 1) : t[j] # "["
        /\ \E b \in a..Len(t) : BracketDepth(t, a, b) = 0
FirstBalancedRegion(t) ==
    LET a == CHOOSE k \in 1..Len(t) : t[k] = "[" /\ \A j \in 1..(k - 1) : t[j] # "["
        b == CHOOSE k \in a..Len(t) :
                 /\ BracketDepth(t, a, k) = 0
                 /\ \A j \in a..(k - 1) : BracketDepth(t, a, j) # 0
    IN  SubSeq(t, a, b)

\* C16: when the response embeds a JSON array inside prose,
\* parse_llm_response returns the array of the first balanced [...] region,
\* also when the prose around it has brackets of its own.
C16_FirstBalancedRegion ==
    (/\ ppc = "returned"
     /\ ~JsonLoads(ptext).ok
     /\ HasBalancedRegion(ptext)
     /\ JsonLoads(FirstBalancedRegion(ptext)).ok)
        => parsed = JsonLoads(FirstBalancedRegion(ptext)).value

\* ------------------------------------------- annotation claims, continued
\* The spans the candidates with both line numbers give by themselves.
MergedOf(flagged_ranges, n) ==
    IF CollectRanges(flagged_ranges, n) = << >> THEN << >>
    ELSE MergeRanges(SortRanges(CollectRanges(flagged_ranges, n)))

\* C17: a candidate lacking start_line or end_line is dropped and produces
\* no markers, and the other candidates are resolved, merged and marked as
\* if it were not there: the resolved ranges, the merged spans and the
\* marked body are those of the candidates that have both line numbers.
C17_IncompleteDropped ==
    apc = "done" =>
        /\ ranges = CollectRanges(LineFlags, Len(lines))
        /\ merged = MergedOf(LineFlags, Len(lines))
        /\ flagged_text = summary \o InsertMarkers(lines, MergedOf(LineFlags, Len(lines)))

C17_Witness ==
    /\ apc = "done"
    /\ Len(all_flags) = 2
    /\ ~HasLineNumbers(all_flags[1])
    /\ HasLineNumbers(all_flags[2])
    /\ Len(merged) = 1
    /\ Len(flagged_text) = Len(summary) + Len(lines) + 2

\* C18: when every candidate of a document is dropped during resolution, the
\* output carries no markers and its header is the "no sensitive content
\* detected" header.
C18_AllDroppedHeader ==
    (apc = "done" /\ all_flags # << >> /\ ranges = << >>) =>
        /\ summary = NoFlagsHeader
        /\ flagged_text = NoFlagsHeader \o lines

\* C19: whenever anything is flagged, the count the summary header states is
\* the number of merged spans, which is the number of START/END marker pairs
\* in the body.
C19_HeaderCountsSpans ==
    (apc = "done" /\ merged # << >>) =>
        summary[4] = << "**Status:** ", ToString(Len(merged)), " ",
                        IF Len(merged) = 1 THEN "item" ELSE "items",
                        " flagged for review" >>

\* The largest end among the first j ranges.
RECURSIVE RunningEnd(_, _)
RunningEnd(sorted, j) ==
    IF j = 1 THEN sorted[1][2] ELSE Max(RunningEnd(sorted, j - 1), sorted[j][2])

\* The start and end of each span.
Bounds(spans) == [k \in 1..Len(spans) |-> << spans[k][1], spans[k][2] >>]

\* C20: in (start, end) order a span joins the running merged span exactly
\* when it starts at or before the running end + 1, so a new merged span
\* begins only at a start beyond running end + 1 and any two merged spans
\* have an unflagged line between them; (5,10) with (9,14) and (5,10) with
\* (11,14) give the single span (5,14), (5,10) with (12,14) stays two spans.
C20_MergeWhenAdjacent ==
    /\ (apc = "done" /\ ranges # << >>) =>
          /\ Len(merged) =
                1 + Cardinality({k \in 2..Len(ranges) :
                        SortRanges(ranges)[k][1]
                            > RunningEnd(SortRanges(ranges), k - 1) + 1})
          /\ \A k \in 1..(Len(merged) - 1) : merged[k + 1][1] >= merged[k][2] + 2
    /\ Bounds(MergeRanges(SortRanges(<< << 5, 10, << >> >>, << 9, 14, << >> >> >>)))
          = << << 5, 14 >> >>
    /\ Bounds(MergeRanges(SortRanges(<< << 11, 14, << >> >>, << 5, 10, << >> >> >>)))
          = << << 5, 14 >> >>
    /\ Bounds(MergeRanges(SortRanges(<< << 5, 10, << >> >>, << 12, 14, << >> >> >>)))
          = << << 5, 10 >>, << 12, 14 >> >>

C20_Witness ==
    /\ apc = "done"
    /\ Len(ranges) = 2
    /\ SortRanges(ranges)[2][1] = SortRanges(ranges)[1][2] + 1
    /\ SortRanges(ranges)[1][2] > SortRanges(ranges)[1][1]
    /\ Len(merged) = 1
    /\ merged[1][1] = 0
    /\ merged[1][2] = Len(lines) - 1

\* C22: with an empty candidate list the annotated output is exactly the
\* "no sensitive content detected" header followed by the original lines,
\* and no marker is inserted.
C22_EmptyCandidates ==
    (apc = "done" /\ all_flags = << >>) =>
        /\ summary = NoFlagsHeader
        /\ merged = << >>
        /\ flagged_text = NoFlagsHeader \o lines
        /\ Len(flagged_text) = Len(NoFlagsHeader) + Len(lines)

C22_Witness ==
    /\ apc = "done"
    /\ all_flags = << >>
    /\ Len(lines) >= 2
    /\ flagged_text[Len(NoFlagsHeader) + 1] = lines[1]
    /\ flagged_text[4] = << "**Status:** ", "No sensitive content detected" >>

\* C26: for len(lines) > chunk_size and 0 <= overlap < chunk_size, window k
\* (counted from 0) starts at k * (chunk_size - overlap), every window but
\* the last has exactly chunk_size lines, and two consecutive windows that
\* are both not the last share exactly overlap lines.
C26_WindowOffsets ==
    (cpc = "done" /\ ValidChunking /\ Len(lines) > chunk_size) =>
        /\ \A k \in 1..Len(chunks) :
              chunks[k].start = (k - 1) * (chunk_size - overlap)
        /\ \A k \in 1..(Len(chunks) - 1) : Len(chunks[k].chunk) = chunk_size
        /\ \A k \in 1..(Len(chunks) - 2) :
              Cardinality(WindowRange(k) \cap WindowRange(k + 1)) = overlap

C26_Witness ==
    /\ cpc = "done"
    /\ ValidChunking
    /\ Len(lines) > chunk_size
    /\ overlap >= 1
    /\ chunk_size >= 2
    /\ Len(chunks) >= 3
    /\ chunks[2].start = chunk_size - overlap
    /\ WindowRange(1) \cap WindowRange(2) # {}

\* What a numbered line reads as: int() of the digits before "| ", and the
\* text behind it.
NumberOf(rendered) == CHOOSE num \in 0..(Len(lines) + 1) : ToString(num) = rendered[2]
TextOf(rendered) == SubSeq(rendered, 4, Len(rendered))

\* C27: in every window given to the classifier the line at position j
\* (from 0) carries the number start_offset + j + 1, padded with zeros; this
\* is the line's 1-indexed position in the document, the same in every
\* window that holds the line, and a candidate naming that number is
\* resolved by insert_flags_by_lines to that very line.
C27_GlobalLineNumbers ==
    (cpc = "done" /\ apc # "off") =>
        \A k \in 1..Len(prompts) :
            \A j \in 1..Len(prompts[k].numbered) :
                LET rendered == prompts[k].numbered[j]
                    num == NumberOf(rendered)
                IN  /\ rendered[1] = "000"
                    /\ rendered[3] = "| "
                    /\ num = prompts[k].start_offset + (j - 1) + 1
                    /\ lines[num] = TextOf(rendered)
                    /\ lines[ResolveStart(GoodAt(num), Len(lines)) + 1] = TextOf(rendered)
                    /\ \A k2 \in 1..Len(prompts) :
                          \A j2 \in 1..Len(prompts[k2].numbered) :
                              TextOf(prompts[k2].numbered[j2]) = TextOf(rendered)
                                  => NumberOf(prompts[k2].numbered[j2]) = num

C27_Witness ==
    /\ cpc = "done"
    /\ apc = "done"
    /\ overlap >= 1
    /\ Len(prompts) >= 2
    /\ prompts[2].start_offset >= 1
    /\ \E j \in 1..Len(prompts[1].numbered) :
          /\ TextOf(prompts[1].numbered[j]) = TextOf(prompts[2].numbered[1])
          /\ NumberOf(prompts[2].numbered[1]) = j

\* -------------------------------------------------- driver claims, continued
Names(dir) == {f.name : f \in dir}

\* name is the first of stem.ext, stem_1.ext, stem_2.ext, ... not in names.
IsFirstFreeName(name, names) ==
    /\ name \notin names
    /\ \A j \in 0..(name[2] - 1) : << name[1], j, name[3] >> \in names

\* C24: writing a review artifact and archiving an original never overwrite
\* an existing file: every step keeps the files the review and archive
\* directories hold, a file that has been written is never written again,
\* no two files of a directory share a name, and a new file's name is the
\* first of stem_review.ext, stem_review_1.ext, ... (for the archive:
\* name.ext, stem_1.ext, ...) the directory did not hold.
C24_NoOverwrite ==
    [][/\ Names(review) \subseteq Names(review')
       /\ \A f \in review : f.complete => f \in review'
       /\ archive \subseteq archive'
       /\ \A f, g \in review' : f.name = g.name => f = g
       /\ \A f, g \in archive' : f.name = g.name => f = g
       /\ \A f \in review' :
             f.name \notin Names(review) => IsFirstFreeName(f.name, Names(review))
       /\ \A f \in archive' :
             f.name \notin Names(archive) => IsFirstFreeName(f.name, Names(archive))]_vars

C24_Witness ==
    /\ \E f, g \in review : f.name[2] = 0 /\ g.name[2] = 1 /\ f.name[1] = g.name[1]
    /\ \E f, g \in archive : f.name[2] = 0 /\ g.name[2] = 1 /\ f.name[1] = g.name[1]

\* C28: an invocation that acquired the lock and ended inside the process
\* (completion, the early return when there are no text files, an uncaught
\* exception) no longer holds it; so whenever no invocation is inside the
\* "with" block the lock is free, and an invocation that starts then
\* acquires it (acquire never waits: it succeeds or the invocation exits).
C28_LockReleased ==
    /\ \A p \in Procs : (pc[p] = "exited" /\ acquired[p]) => flock_holder # p
    /\ (\A p \in Procs : ~Working(p)) => FlockGranted(flock_holder)
    /\ \A q \in Procs :
          (pc[q] = "enter" /\ \A p \in Procs \ {q} : ~Working(p)) => ENABLED AcquireOk(q)

C28_Witness ==
    \E p, q \in Procs :
        /\ pc[p] = "exited"
        /\ acquired[p]
        /\ exit_code[p] = "1"
        /\ Working(q)
        /\ flock_holder = q

\* An invocation that held the lock and ended without error.
CompletedOk(p) == pc[p] = "exited" /\ acquired[p] /\ exit_code[p] = "0"

\* C29: after an invocation completes without error none of the documents
\* it processed is discoverable any more; review artifacts and archived
\* originals are never discovered as inputs; and from then on, no new file
\* arriving, no invocation writes a review artifact or moves anything.
C29_RerunDoesNothing ==
    /\ [](\A p \in Procs :
            /\ CompletedOk(p) => \A d \in Discovered(p) : d \notin Scanned
            /\ \A d \in Discovered(p) : d.dir \notin {"flagged", "archive"})
    /\ [][(\E p \in Procs : CompletedOk(p)) => UNCHANGED <<src, review, archive>>]_vars

C29_Witness ==
    \E p, q \in Procs :
        /\ CompletedOk(p)
        /\ Len(files[p]) >= 2
        /\ CompletedOk(q)
        /\ files[q] = << >>
        /\ Cardinality(review) >= 2
        /\ Cardinality(archive) >= 2

\* ------------------------------------------------- the merge loop by itself
\* Resolved ranges of one or two lines over a document of MaxLines lines,
\* with no reason, the reasons "a" and "b", and the reason "ab" (of which
\* "a" and "b" are substrings); a token is one character of the reason.
Reasons == { << >>, << "a" >>, << "b" >>, << "a", "b" >> }
ResolvedRanges ==
    { << s, e, r >> : s \in 0..(MaxLines - 1), e \in 0..(MaxLines - 1), r \in Reasons }
ShortRanges == { r \in ResolvedRanges : r[1] <= r[2] /\ r[2] <= r[1] + 1 }

\* ranges.sort()
SortStep ==
    /\ apc = "sort"
    /\ ranges' = SortRanges(ranges)
    /\ apc' = "merge"
    /\ UNCHANGED <<all_flags, summary, merged, flagged_text>>
    /\ UNCHANGED <<chunkVars, drvVars, flagVars, parseVars>>

\* merged = [ranges[0]]; for start, end, reason in ranges[1:]: ...
MergeLoop ==
    /\ apc = "merge"
    /\ merged' = MergeRanges(ranges)
    /\ apc' = "merged"
    /\ UNCHANGED <<all_flags, summary, ranges, flagged_text>>
    /\ UNCHANGED <<chunkVars, drvVars, flagVars, parseVars>>

\* insert_flags_by_lines at "ranges.sort()", ranges not empty.
InitMerge ==
    /\ \E k \in 1..MaxFlags : ranges \in [1..k -> ShortRanges]
    /\ merged = << >>
    /\ apc = "sort"
    /\ all_flags = << >>
    /\ summary = << >>
    /\ flagged_text = << >>
    /\ lines = << >>
    /\ chunk_size = 1
    /\ overlap = 0
    /\ start = 0
    /\ chunks = << >>
    /\ cpc = "off"
    /\ DriverOff
    /\ FlagOff
    /\ ParseOff

NextMerge ==
    \/ SortStep
    \/ MergeLoop

SpecMerge == InitMerge /\ [][NextMerge]_vars

\* The reasons of the sorted ranges that lie inside a merged span, in order.
GroupReasons(sorted, span) ==
    LET inside == SelectSeq(sorted, LAMBDA r : span[1] <= r[1] /\ r[1] <= span[2])
    IN  [k \in 1..Len(inside) |-> inside[k][3]]

\* The rationale as the claim builds it: the first span's rationale, then
\* each further one appended behind "; " when it is not empty and not a
\* substring of the running rationale; an empty running rationale is
\* replaced by the new one.
RECURSIVE Walk(_, _)
Walk(running, rest) ==
    IF rest = << >> THEN running
    ELSE IF Head(rest) = << >> \/ IsSubstring(Head(rest), running)
         THEN Walk(running, Tail(rest))
    ELSE IF running = << >> THEN Walk(Head(rest), Tail(rest))
    ELSE Walk(running \o << ";", " " >> \o Head(rest), Tail(rest))

\* C21: the rationale of a merged span is built from its spans' rationales
\* in sorted order: a rationale is appended, behind "; ", only when it is
\* not empty and not already a substring of the running rationale, and an
\* empty running rationale is replaced without a separator.
C21_RationaleJoin ==
    apc = "merged" =>
        \A k \in 1..Len(merged) :
            /\ merged[k][3] = Walk(<< >>, GroupReasons(ranges, merged[k]))
            /\ merged[k][3] # << >> => merged[k][3][1] # ";"

C21_Witness ==
    /\ apc = "merged"
    /\ Len(ranges) = 2
    /\ Len(merged) = 1
    /\ ranges[1][3] = << "b" >>
    /\ ranges[2][3] = << "a" >>
    /\ merged[1][3] = << "b", ";", " ", "a" >>

\* ---------------------------------------- the transcriber beside the flagger
\* The media files the root can hold: an image and a PDF of the same stem.
Media ==
    { [dir |-> "root", stem |-> "c", suffix |-> ".png"],
      [dir |-> "root", stem |-> "c", suffix |-> ".pdf"] }

\* discover_files, flattened as "for file_type, file_list in files.items()"
\* walks it: the images before the PDFs.
MediaOrder(present) ==
    SelectSeq(<< [dir |-> "root", stem |-> "c", suffix |-> ".png"],
                 [dir |-> "root", stem |-> "c", suffix |-> ".pdf"] >>,
              LAMBDA m : m \in present)

\* transcriptions_dir / f"{stem}.md", f"{stem}_{counter}.md"
TranscriptionPath(stem, k) ==
    [dir |-> "transcriptions", stem |-> stem \o CounterText(k), suffix |-> ".md"]

\* while out_path.exists(): the first counter whose name no file has
FirstFreeTranscription(stem) ==
    CHOOSE k \in 0..Cardinality(src) :
        /\ TranscriptionPath(stem, k) \notin src
        /\ \A j \in 0..(k - 1) : TranscriptionPath(stem, j) \in src

\* file_path of the transcriber's running iteration
TrCurrentFile == tfiles[tidx]

\* Control at the end of one iteration of the transcriber's loop.
TrAdvance ==
    IF tidx < Len(tfiles)
    THEN /\ tpc' = "process"
         /\ tidx' = tidx + 1
    ELSE /\ tpc' = "finish"
         /\ UNCHANGED tidx

\* with FileLock("transcribe"): acquire() on transcribe.lock, a lock file
\* other than flag.lock
TrAcquire ==
    /\ tpc = "enter"
    /\ FlockGranted(tflock_holder)
    /\ tflock_holder' = "t"
    /\ tpc' = "discover"
    /\ UNCHANGED <<media, tfiles, tidx, tout_path, writing, read_partial, doc_text>>
    /\ UNCHANGED <<src, unreadable, review, archive, flock_holder, pc, acquired, files,
                   fidx, out_path, exit_code>>
    /\ UNCHANGED <<chunkVars, annotVars, flagVars, parseVars>>

\* files = discover_files(root, config); "if total == 0: return"
TrDiscover ==
    /\ tpc = "discover"
    /\ tfiles' = MediaOrder(media)
    /\ IF media = {}
       THEN /\ tflock_holder' = Released(tflock_holder, "t")
            /\ tpc' = "exited"
            /\ UNCHANGED tidx
       ELSE /\ tidx' = 1
            /\ tpc' = "process"
            /\ UNCHANGED tflock_holder
    /\ UNCHANGED <<media, tout_path, writing, read_partial, doc_text>>
    /\ UNCHANGED <<src, unreadable, review, archive, flock_holder, pc, acquired, files,
                   fidx, out_path, exit_code>>
    /\ UNCHANGED <<chunkVars, annotVars, flagVars, parseVars>>

\* markdown = process_file(...) gives a text
TrProcess ==
    /\ tpc = "process"
    /\ tpc' = "write_open"
    /\ UNCHANGED <<media, tflock_holder, tfiles, tidx, tout_path, writing, read_partial, doc_text>>
    /\ UNCHANGED <<src, unreadable, review, archive, flock_holder, pc, acquired, files,
                   fidx, out_path, exit_code>>
    /\ UNCHANGED <<chunkVars, annotVars, flagVars, parseVars>>

\* process_file caught an exception and gave None: "continue"
TrProcessFails ==
    /\ tpc = "process"
    /\ TrAdvance
    /\ UNCHANGED <<media, tflock_holder, tfiles, tout_path, writing, read_partial, doc_text>>
    /\ UNCHANGED <<src, unreadable, review, archive, flock_holder, pc, acquired, files,
                   fidx, out_path, exit_code>>
    /\ UNCHANGED <<chunkVars, annotVars, flagVars, parseVars>>

\* The collision loop, then write_text opens out_path in the transcriptions
\* folder: the file exists, nothing or a part of the text is in it.
TrWriteOpen ==
    /\ tpc = "write_open"
    /\ LET out == TranscriptionPath(TrCurrentFile.stem,
                                    FirstFreeTranscription(TrCurrentFile.stem))
       IN  /\ tout_path' = out
           /\ src' = src \cup {out}
           /\ writing' = writing \cup {out}
           /\ doc_text' = [doc_text EXCEPT ![out] = << >>]
    /\ tpc' = "write_close"
    /\ UNCHANGED <<media, tflock_holder, tfiles, tidx, read_partial>>
    /\ UNCHANGED <<unreadable, review, archive, flock_holder, pc, acquired, files,
                   fidx, out_path, exit_code>>
    /\ UNCHANGED <<chunkVars, annotVars, flagVars, parseVars>>

\* markdown: the text process_file gives
Markdown == << << "# ", "c" >>, << >>, << "text" >> >>

\* The archive's file that the latest rename of d made.
LastArchived(d) ==
    CHOOSE f \in archive :
        /\ f.doc = d
        /\ \A g \in archive : g.doc = d => g.name[2] <= f.name[2]

\* write_text has written the whole text and closed the file; the text is
\* in the file that was opened, wherever a rename has put it meanwhile.
TrWriteClose ==
    /\ tpc = "write_close"
    /\ writing' = writing \ {tout_path}
    /\ IF tout_path \in src
       THEN /\ doc_text' = [doc_text EXCEPT ![tout_path] = Markdown]
            /\ UNCHANGED archive
       ELSE /\ archive' = {IF f = LastArchived(tout_path)
                            THEN [f EXCEPT !.text = Markdown] ELSE f : f \in archive}
            /\ UNCHANGED doc_text
    /\ tpc' = "move"
    /\ UNCHANGED <<media, tflock_holder, tfiles, tidx, tout_path, read_partial>>
    /\ UNCHANGED <<src, unreadable, review, flock_holder, pc, acquired, files,
                   fidx, out_path, exit_code>>
    /\ UNCHANGED <<chunkVars, annotVars, flagVars, parseVars>>

\* The collision loop, then shutil.move(file_path, archive_dest) of the media
\* original.
TrMove ==
    /\ tpc = "move"
    /\ LET m == TrCurrentFile
           name == << m.stem, FirstFree(archive, m.stem, m.suffix), m.suffix >>
       IN  /\ media' = media \ {m}
           /\ archive' = archive \cup {[name |-> name, doc |-> m, text |-> << >>]}
    /\ TrAdvance
    /\ UNCHANGED <<tflock_holder, tfiles, tout_path, writing, read_partial, doc_text>>
    /\ UNCHANGED <<src, unreadable, review, flock_holder, pc, acquired, files,
                   fidx, out_path, exit_code>>
    /\ UNCHANGED <<chunkVars, annotVars, flagVars, parseVars>>

\* logger.info("Transcription complete."), __exit__ releases the lock.
TrFinish ==
    /\ tpc = "finish"
    /\ tflock_holder' = Released(tflock_holder, "t")
    /\ tpc' = "exited"
    /\ UNCHANGED <<media, tfiles, tidx, tout_path, writing, read_partial, doc_text>>
    /\ UNCHANGED <<src, unreadable, review, archive, flock_holder, pc, acquired, files,
                   fidx, out_path, exit_code>>
    /\ UNCHANGED <<chunkVars, annotVars, flagVars, parseVars>>

\* One transcriber invocation and the flagger invocations started over a
\* root folder that holds media files and, maybe, a text document.
InitPipeline ==
    /\ media \in SUBSET Media
    /\ tflock_holder = "none"
    /\ tpc = "enter"
    /\ tfiles = << >>
    /\ tidx = 0
    /\ tout_path = << >>
    /\ writing = {}
    /\ read_partial = [p \in Procs |-> FALSE]
    /\ doc_text = NoText
    /\ src \in SUBSET {d \in Docs : d.dir = "root"}
    /\ unreadable \in SUBSET {d \in Docs : d.stem = "b"}
    /\ review = {}
    /\ archive = {}
    /\ flock_holder = "none"
    /\ pc = [p \in Procs |-> "enter"]
    /\ acquired = [p \in Procs |-> FALSE]
    /\ files = [p \in Procs |-> << >>]
    /\ fidx = [p \in Procs |-> 0]
    /\ out_path = [p \in Procs |-> << >>]
    /\ exit_code = [p \in Procs |-> "none"]
    /\ lines = << >>
    /\ chunk_size = 1
    /\ overlap = 0
    /\ start = 0
    /\ chunks = << >>
    /\ cpc = "off"
    /\ AnnotOff
    /\ FlagOff
    /\ ParseOff

NextTranscribe ==
    \/ TrAcquire
    \/ TrDiscover
    \/ TrProcess
    \/ TrProcessFails
    \/ TrWriteOpen
    \/ TrWriteClose
    \/ TrMove
    \/ TrFinish

NextPipeline ==
    \/ Next
    \/ NextTranscribe

SpecPipeline == InitPipeline /\ [][NextPipeline]_vars

\* The flagger invocation p has read its running file and is writing the
\* review artifact of it or archiving it.
Screened(p) == pc[p] \in {"write_open", "write_close", "move"}

\* C30: the transcriber and the flagger hold different locks and run at the
\* same time; the flagger never screens (reads, reviews, archives) a file of
\* the transcriptions folder that the transcriber has not finished writing.
C30_NoPartialTranscription ==
    /\ \A p \in Procs : Screened(p) => ~read_partial[p]
    /\ \A f \in archive : f.doc \notin writing

\* Both locks are held at once, each by its own program.
C30_BothAtWork ==
    \E p \in Procs :
        /\ flock_holder = p
        /\ tflock_holder = "t"
        /\ Working(p)
        /\ tpc \in {"process", "write_open", "write_close", "move"}

\* ------------------------------------- one invocation, flag_file step by step
\* The invocation that runs; no other is started.
Runner == "p1"

\* text = file_path.read_text(encoding="utf-8"); lines = text.split("\n"):
\* flag_file is entered for the running file.
ReadText(p) ==
    /\ pc[p] = "flag_file"
    /\ cpc = "off"
    /\ CurrentFile(p) \in src
    /\ CurrentFile(p) \notin unreadable
    /\ lines' = doc_text[CurrentFile(p)]
    /\ cpc' = "call"
    /\ apc' = "windows"
    /\ win' = 1
    /\ UNCHANGED <<chunk_size, overlap, start, chunks>>
    /\ UNCHANGED <<all_flags, summary, ranges, merged, flagged_text>>
    /\ UNCHANGED <<prompts, replies>>
    /\ UNCHANGED <<drvVars, parseVars>>

\* return flagged_text: main() goes on to write the review artifact.
FlagFileReturns(p) ==
    /\ apc = "done"
    /\ FlagFile(p)

\* insert_flags_by_lines raised inside flag_file: nothing in main() catches
\* it, __exit__ releases the lock and the process ends with the traceback.
FlagFilePropagates(p) ==
    /\ pc[p] = "flag_file"
    /\ apc = "raised"
    /\ flock_holder' = Released(flock_holder, p)
    /\ pc' = [pc EXCEPT ![p] = "exited"]
    /\ exit_code' = [exit_code EXCEPT ![p] = "1"]
    /\ UNCHANGED <<src, unreadable, review, archive, acquired, files, fidx, out_path>>
    /\ UNCHANGED <<chunkVars, annotVars, flagVars, parseVars, trVars>>

\* One invocation started over a root folder that holds one text document,
\* under a configuration with 0 <= chunk_overlap_lines < chunk_size_lines.
InitDoc ==
    /\ \E d \in {f \in Docs : f.dir = "root"} :
          /\ src = {d}
          /\ unreadable \in SUBSET {f \in {d} : f.stem = "b"}
          /\ \E n \in 1..MaxDocLen :
                doc_text = [f \in Paths |-> IF f = d THEN DocOfLen(n) ELSE << >>]
    /\ review = {}
    /\ archive = {}
    /\ flock_holder = "none"
    /\ pc = [p \in Procs |-> IF p = Runner THEN "enter" ELSE "off"]
    /\ acquired = [p \in Procs |-> FALSE]
    /\ files = [p \in Procs |-> << >>]
    /\ fidx = [p \in Procs |-> 0]
    /\ out_path = [p \in Procs |-> << >>]
    /\ exit_code = [p \in Procs |-> "none"]
    /\ media = {}
    /\ tflock_holder = "none"
    /\ tpc = "off"
    /\ tfiles = << >>
    /\ tidx = 0
    /\ tout_path = << >>
    /\ writing = {}
    /\ read_partial = [p \in Procs |-> FALSE]
    /\ lines = << >>
    /\ chunk_size \in 1..MaxChunk
    /\ overlap \in 0..(chunk_size - 1)
    /\ start = 0
    /\ chunks = << >>
    /\ cpc = "off"
    /\ AnnotOff
    /\ FlagOff
    /\ ParseOff

NextDoc ==
    \/ AcquireOk(Runner)
    \/ Discover(Runner)
    \/ ReadText(Runner)
    \/ FlagFileRaises(Runner)
    \/ NextFlag
    \/ FlagFileReturns(Runner)
    \/ FlagFilePropagates(Runner)
    \/ WriteOpen(Runner)
    \/ WriteClose(Runner)
    \/ Move(Runner)
    \/ Finish(Runner)

SpecDoc == InitDoc /\ [][NextDoc]_vars

\* The steps of main() around flag_file.
MainSteps ==
    \/ AcquireOk(Runner)
    \/ Discover(Runner)
    \/ ReadText(Runner)
    \/ FlagFileRaises(Runner)
    \/ FlagFileReturns(Runner)
    \/ FlagFilePropagates(Runner)
    \/ WriteOpen(Runner)
    \/ WriteClose(Runner)
    \/ Move(Runner)
    \/ Finish(Runner)

\* The steps of flag_file up to the call of insert_flags_by_lines, and the
\* call that raises.
WindowSteps ==
    \/ ChunkSingle
    \/ ChunkEnter
    \/ ChunkLast
    \/ ChunkAdvance
    \/ ClassifyRaises
    \/ ClassifyReturns
    \/ AnnotateRaises

\* The step Annotate seen at flag_file's position: insert_flags_by_lines is
\* called with candidates it accepts and returns.
AnnotateReturns ==
    /\ apc = "collect"
    /\ ~InsertRaises(all_flags)
    /\ apc' = "done"

\* The invocation is not terminated from outside and the calls it makes
\* return or raise: it takes its next step as long as it has one.
SpecDocFair ==
    /\ SpecDoc
    /\ WF_vars(MainSteps)
    /\ WF_vars(WindowSteps)
    /\ WF_apc(AnnotateReturns)

\* C25: screening never changes the document: insert_flags_by_lines leaves
\* the line list it is given unchanged, no step of the invocation changes a
\* file of the source folders, and the file in the archive has exactly the
\* lines the document had when it was discovered and read.
C25_DocumentNotMutated ==
    /\ [](\A f \in archive : f.doc \in Discovered(Runner) => f.text = lines)
    /\ [][(apc = "collect" /\ apc' = "done") => lines' = lines]_vars
    /\ [][doc_text' = doc_text]_vars

C25_Witness ==
    /\ merged # << >>
    /\ Len(lines) >= 2
    /\ \E f \in archive : f.text = lines
    /\ \E f \in review :
          /\ f.complete
          /\ Len(f.text) = Len(summary) + Len(lines) + 2 * Len(merged)

\* The document is cut into windows and the classifier call of every one
\* of them has failed.
AllWindowsFailed ==
    /\ pc[Runner] = "flag_file"
    /\ cpc = "done"
    /\ Len(chunks) >= 1
    /\ Len(replies) = Len(chunks)
    /\ \A k \in 1..Len(replies) : replies[k].raised

\* The review artifact of d is written and has no span: the "no sensitive
\* content" header and the document's lines, no marker added.
ReviewWithoutSpans(d) ==
    \E f \in review :
        /\ f.doc = d
        /\ f.complete
        /\ f.text = NoFlagsHeader \o doc_text[d]

\* C23: a readable document whose classifier call fails on every window is
\* not skipped: it gets a review artifact with zero spans and its original
\* is archived.
C23_FailedWindowsStillArchived ==
    \A d \in Docs :
        (AllWindowsFailed /\ CurrentFile(Runner) = d)
            ~> (ReviewWithoutSpans(d) /\ Archived(d) /\ d \notin src)

C23_Witness ==
    /\ Len(replies) >= 2
    /\ \A k \in 1..Len(replies) : replies[k].raised
    /\ \E d \in Docs : ReviewWithoutSpans(d) /\ Archived(d) /\ d \notin src
    /\ pc[Runner] = "exited"
    /\ exit_code[Runner] = "0"

====
